---- MODULE Spec2Model ----
(***************************************************************************)
(* State-machine model of the two notebooks of programmer.ie.notebooks:    *)
(*   - the RAFT notebook (src/unnamed/part_000): the reward-model training *)
(*     cell, then generate_samples / rank_samples / fine_tune_model and    *)
(*     the five-iteration RAFT loop;                                       *)
(*   - the pytorch_nn notebook: the SimpleNN training loop and the         *)
(*     checkpoint save / load cells.                                       *)
(* Library calls (tokenizer, forward pass, backward pass, optimizer) are   *)
(* opaque: tensors are small integers, the parameters of a pretrained      *)
(* model are the record of the optimizer steps applied to them, and what   *)
(* the library draws at random (dropout masks, SimpleNN's initial          *)
(* parameters and its random training data) is a nondeterministic choice.  *)
(* The record of a call (its locals, its result) is kept until the         *)
(* statement after the call has run.                                       *)
(***************************************************************************)
EXTENDS Integers, Sequences, FiniteSets, TLC

VARIABLES
    pc,             \* position in the RAFT notebook, or in a direct call
    err,            \* the exception that ended the run ("none" while running)
    ret,            \* where fine_tune_model returns to
    out,            \* lines printed so far
    calls,          \* history of function calls and returns
    rm_mode,        \* reward_model.training: "train" or "eval"
    rm_weights,     \* reward_model parameters
    rm_grad,        \* backward passes accumulated in reward_model's .grad
    rm_epoch,       \* epoch of the reward-model training loop
    rm_ops,         \* library calls of its epoch in progress (or last run)
    iteration,      \* RAFT loop variable
    prompt,         \* global prompt
    num_samples,    \* argument of generate_samples
    samples,        \* global samples
    scored,         \* the list the rank_samples call just made was given
    scored_w,       \* reward_model parameters during that call
    rewards,        \* local rewards of that call
    order,          \* torch.argsort's result in that call
    ranking,        \* value returned by that call
    ranked_samples, \* global ranked_samples (the [:3] slice)
    gen_mode,       \* generative_model.training
    gen_weights,    \* generative_model parameters: the updates applied
    gen_grad,       \* backward passes accumulated in generative_model's .grad
    opt_steps,      \* optimizer steps applied to generative_model in total
    dataset,        \* argument of the fine_tune_model call running or just made
    ft_epoch,       \* epoch of that call
    ft_idx,         \* samples of the epoch already visited
    ft_steps,       \* optimizer steps of that call
    ft_backward,    \* backward passes of that call
    ft_visited,     \* samples visited by that call, in order
    ft_result,      \* value returned by that call
    nn_pc,          \* position in the pytorch_nn notebook
    nn_mode,        \* model.training of the SimpleNN instance
    nn_weights,     \* its parameters, by state_dict key
    nn_grad,        \* backward passes accumulated in its .grad buffers
    nn_epoch,       \* loop variable of its training loop
    nn_ops,         \* library calls of the epoch in progress (or last run)
    nn_out,         \* lines printed so far
    nn_file,        \* contents of model.pth
    nn_saved        \* the parameters as they were when model.pth was written

ctlVars == <<err, ret>>
ioVars == <<out, calls>>
rmVars == <<rm_mode, rm_weights, rm_grad, rm_epoch, rm_ops>>
loopVars == <<iteration, prompt, num_samples, samples, ranked_samples>>
rankVars == <<scored, scored_w, rewards, order, ranking>>
genVars == <<gen_mode, gen_weights, gen_grad, opt_steps>>
ftVars == <<dataset, ft_epoch, ft_idx, ft_steps, ft_backward, ft_visited,
            ft_result>>

raftVars == <<pc, ctlVars, ioVars, rmVars, loopVars, rankVars, genVars, ftVars>>

nnVars == <<nn_pc, nn_mode, nn_weights, nn_grad, nn_epoch, nn_ops, nn_out,
            nn_file, nn_saved>>

vars == <<raftVars, nnVars>>

----------------------------------------------------------------------------
(* Program constants of the RAFT notebook *)

RewardEpochs == 3
NumIterations == 5
DefaultNumSamples == 5
TopK == 3
FineTuneEpochs == 3
Prompt == "What is artificial intelligence?"

(* Bounds of the model *)

\* reward logits range over 0..MaxScore
MaxScore == 1
\* direct calls of generate_samples pass num_samples in 0..MaxLen, those of
\* fine_tune_model datasets of 1..MaxLen samples
MaxLen == 3
\* direct calls of rank_samples pass lists of 1..MaxRankLen samples
MaxRankLen == 2

OtherPrompt == "Tell me a joke."
Prompts == {Prompt, OtherPrompt}

----------------------------------------------------------------------------
(* Helpers *)

Min(a, b) == IF a < b THEN a ELSE b

Range(s) == {s[i] : i \in 1..Len(s)}

Take(s, k) == SubSeq(s, 1, Min(k, Len(s)))

IsPrefix(s, t) == Len(s) <= Len(t) /\ SubSeq(t, 1, Len(s)) = s

Count(s, x) == Cardinality({i \in 1..Len(s) : s[i] = x})

Max(a, b) == IF a < b THEN b ELSE a

Perms(n) == {f \in [1..n -> 1..n] : \A i, j \in 1..n : f[i] = f[j] => i = j}

----------------------------------------------------------------------------
(* generate_samples *)

\* str(i) for i >= 0: the decimal digits, most significant first
RECURSIVE Digits(_)
Digits(i) == IF i < 10 THEN <<i>> ELSE Digits(i \div 10) \o <<i % 10>>

\* f"Generated response {i} for {prompt}": the literal pieces and the two
\* formatted values, in order
Format(i, p) == <<"Generated response ", Digits(i), " for ", p>>

GenerateSamples_FromModel(p, n) ==
    [k \in 1..n |-> Format(k - 1 + Len(gen_weights.updates), p)]

\* the list comprehension over range(num_samples); position k holds i = k-1
GenerateSamples(p, n) == [k \in 1..n |-> Format(k - 1, p)]

----------------------------------------------------------------------------
(* rank_samples *)

\* dropout masks a forward pass may draw: none in evaluation mode
Masks(mode) == IF mode = "train" THEN 0..MaxScore ELSE {0}

\* stand-in for the tokenizer: a number determined by the text alone
TextCode(text) == text[2][Len(text[2])] + (IF text[4] = Prompt THEN 0 ELSE 1)

\* stand-in for reward_model(**inputs).logits of one row: determined by the
\* weights, the text and the dropout mask drawn for the row
Logit(w, text, mask) ==
    (Len(w.updates) + TextCode(text) + mask) % (MaxScore + 1)

\* the index orders of a list of n elements, for every n that occurs
IndexOrders ==
    [n \in 0..Max(DefaultNumSamples, MaxRankLen) |-> Perms(n)]

\* a tensor: its shape and its elements in row-major order
Tensor(shape, data) == [shape |-> shape, data |-> data]

NotOne(d) == d # 1

\* Tensor.squeeze(): drops every dimension of size 1
Squeeze(t) == Tensor(SelectSeq(t.shape, NotOne), t.data)

\* torch.argsort(rewards, descending=True): a tensor of rewards' shape that
\* holds an index order with non-increasing rewards; the order among equal
\* rewards is unspecified (indices are 1-based here)
Argsort_Ascending(t) ==
    {Tensor(t.shape, ord) : ord \in
        {o \in IndexOrders[Len(t.data)] :
            \A k \in 1..(Len(t.data) - 1) : t.data[o[k]] =< t.data[o[k + 1]]}}

Argsort(t) ==
    {Tensor(t.shape, ord) : ord \in
        {o \in IndexOrders[Len(t.data)] :
            \A k \in 1..(Len(t.data) - 1) : t.data[o[k]] >= t.data[o[k + 1]]}}

NoTensor == Tensor(<<0>>, <<>>)

\* iterating a tensor: a 0-d tensor raises TypeError
Iterable(t) == t.shape # <<>>

\* [samples[i] for i in order]
Gather(s, ord) == [k \in 1..Len(ord) |-> s[ord[k]]]

----------------------------------------------------------------------------
(* Reward-model training cell *)

\* parameters as from_pretrained returns them; updates lists, per optimizer
\* step applied since, the number of backward passes summed in the gradient
\* that step used
Loaded == [updates |-> <<>>]

\* optimizer.step(): applies the gradient buffer as it stands
Stepped(w, grad) == [w EXCEPT !.updates = Append(@, grad)]

\* reward_model.train()
RmTrainMode ==
    /\ pc = "rm_train"
    /\ rm_mode' = "train"
    /\ pc' = "rm_for"
    /\ UNCHANGED <<nnVars, ctlVars, ioVars, rm_weights, rm_grad, rm_epoch, rm_ops,
                   loopVars, rankVars, genVars, ftVars>>

\* for epoch in range(3)
RmFor ==
    /\ pc = "rm_for"
    /\ pc' = IF rm_epoch < RewardEpochs THEN "rm_zero_grad" ELSE "load_gen"
    /\ rm_ops' = IF rm_epoch < RewardEpochs THEN <<>> ELSE rm_ops
    /\ UNCHANGED <<nnVars, ctlVars, ioVars, rm_mode, rm_weights, rm_grad, rm_epoch,
                   loopVars, rankVars, genVars, ftVars>>

RmZeroGrad_Keeps ==
    /\ pc = "rm_zero_grad"
    /\ rm_grad' = rm_grad
    /\ rm_ops' = Append(rm_ops, "zero_grad")
    /\ pc' = "rm_forward"
    /\ UNCHANGED <<nnVars, ctlVars, ioVars, rm_mode, rm_weights, rm_epoch, loopVars,
                   rankVars, genVars, ftVars>>

\* optimizer.zero_grad()
RmZeroGrad ==
    /\ pc = "rm_zero_grad"
    /\ rm_grad' = 0
    /\ rm_ops' = Append(rm_ops, "zero_grad")
    /\ pc' = "rm_forward"
    /\ UNCHANGED <<nnVars, ctlVars, ioVars, rm_mode, rm_weights, rm_epoch, loopVars,
                   rankVars, genVars, ftVars>>

\* outputs = reward_model(**inputs).logits
RmForward ==
    /\ pc = "rm_forward"
    /\ rm_ops' = Append(rm_ops, "forward")
    /\ pc' = "rm_loss"
    /\ UNCHANGED <<nnVars, ctlVars, ioVars, rm_mode, rm_weights, rm_grad, rm_epoch,
                   loopVars, rankVars, genVars, ftVars>>

\* loss = criterion(outputs, labels)
RmLoss ==
    /\ pc = "rm_loss"
    /\ rm_ops' = Append(rm_ops, "loss")
    /\ pc' = "rm_backward"
    /\ UNCHANGED <<nnVars, ctlVars, ioVars, rm_mode, rm_weights, rm_grad, rm_epoch,
                   loopVars, rankVars, genVars, ftVars>>

\* loss.backward(): adds this pass's gradient to the .grad buffers
RmBackward ==
    /\ pc = "rm_backward"
    /\ rm_grad' = rm_grad + 1
    /\ rm_ops' = Append(rm_ops, "backward")
    /\ pc' = "rm_step"
    /\ UNCHANGED <<nnVars, ctlVars, ioVars, rm_mode, rm_weights, rm_epoch, loopVars,
                   rankVars, genVars, ftVars>>

\* optimizer.step(); print(f"Epoch {epoch+1}, Loss: {loss.item()}")
RmStep ==
    /\ pc = "rm_step"
    /\ rm_weights' = Stepped(rm_weights, rm_grad)
    /\ rm_ops' = Append(rm_ops, "step")
    /\ out' = Append(out, <<"Epoch ", rm_epoch + 1, ", Loss: ">>)
    /\ rm_epoch' = rm_epoch + 1
    /\ pc' = "rm_for"
    /\ UNCHANGED <<nnVars, ctlVars, calls, rm_mode, rm_grad, loopVars, rankVars,
                   genVars, ftVars>>

\* generative_model = AutoModelForCausalLM.from_pretrained("gpt2"): the
\* model comes back in evaluation mode, its gradient buffers empty
LoadGenerative ==
    /\ pc = "load_gen"
    /\ gen_mode' = "eval"
    /\ gen_weights' = Loaded
    /\ gen_grad' = 0
    /\ pc' = "loop"
    /\ UNCHANGED <<nnVars, ctlVars, ioVars, rmVars, loopVars, rankVars, opt_steps,
                   ftVars>>

----------------------------------------------------------------------------
(* The functions of the RAFT cell *)

\* generate_samples(prompt, num_samples), called from position pc and
\* continuing at next
GenerateCall(next) ==
    /\ samples' = GenerateSamples(prompt, num_samples)
    /\ calls' = calls \o <<<<"call", "generate_samples", iteration>>,
                           <<"return", "generate_samples", iteration>>>>
    /\ pc' = next

\* rank_samples(samples): one batched forward pass under torch.no_grad()
\* (dropout stays active when the model is in training mode), squeeze,
\* argsort, and the comprehension that iterates the argsort result
RankSamples(next) ==
    \E mask \in [1..Len(samples) -> Masks(rm_mode)] :
        LET n == Len(samples)
            logits == Tensor(<<n, 1>>,
                        [i \in 1..n |-> Logit(rm_weights, samples[i], mask[i])])
        IN  /\ scored' = samples
            /\ scored_w' = rm_weights
            /\ rewards' = Squeeze(logits)
            /\ \E ord \in Argsort(rewards') :
                /\ order' = ord
                /\ IF Iterable(ord)
                     THEN /\ ranking' = Gather(samples, ord.data)
                          /\ calls' = calls \o
                                <<<<"call", "rank_samples", iteration>>,
                                  <<"return", "rank_samples", iteration>>>>
                          /\ pc' = next
                          /\ err' = err
                     ELSE /\ ranking' = ranking
                          /\ calls' = Append(calls,
                                <<"call", "rank_samples", iteration>>)
                          /\ pc' = "failed"
                          /\ err' = "TypeError"

\* fine_tune_model(model, dataset), entry: model.train() and a new optimizer
FineTuneEnter(arg, back) ==
    /\ dataset' = arg
    /\ ret' = back
    /\ gen_mode' = "train"
    /\ ft_epoch' = 0
    /\ ft_idx' = 0
    /\ ft_steps' = 0
    /\ ft_backward' = 0
    /\ ft_visited' = <<>>
    /\ ft_result' = "pending"
    /\ calls' = Append(calls, <<"call", "fine_tune_model", iteration>>)
    /\ pc' = "ft_loop"

FineTuneStep_FreshPerCall ==
    /\ pc = "ft_loop"
    /\ ft_epoch < FineTuneEpochs
    /\ ft_idx < Len(dataset)
    /\ ft_visited' = Append(ft_visited, dataset[ft_idx + 1])
    /\ gen_grad' = IF ft_steps = 0 THEN 1 ELSE gen_grad + 1
    /\ ft_backward' = ft_backward + 1
    /\ gen_weights' = Stepped(gen_weights, gen_grad')
    /\ ft_steps' = ft_steps + 1
    /\ opt_steps' = opt_steps + 1
    /\ ft_idx' = ft_idx + 1
    /\ UNCHANGED <<nnVars, pc, ctlVars, ioVars, rmVars, loopVars, rankVars, gen_mode,
                   dataset, ft_epoch, ft_result>>

\* one pass of the inner loop: tokenize the sample, forward, loss.backward()
\* (added to the gradient buffers, which nothing clears), optimizer.step()
FineTuneStep ==
    /\ pc = "ft_loop"
    /\ ft_epoch < FineTuneEpochs
    /\ ft_idx < Len(dataset)
    /\ ft_visited' = Append(ft_visited, dataset[ft_idx + 1])
    /\ gen_grad' = gen_grad + 1
    /\ ft_backward' = ft_backward + 1
    /\ gen_weights' = Stepped(gen_weights, gen_grad')
    /\ ft_steps' = ft_steps + 1
    /\ opt_steps' = opt_steps + 1
    /\ ft_idx' = ft_idx + 1
    /\ UNCHANGED <<nnVars, pc, ctlVars, ioVars, rmVars, loopVars, rankVars, gen_mode,
                   dataset, ft_epoch, ft_result>>

FineTuneEpochEnd_StopsEarly ==
    /\ pc = "ft_loop"
    /\ ft_epoch < FineTuneEpochs
    /\ ft_idx = Len(dataset)
    /\ out' = Append(out, <<"Epoch ", ft_epoch + 1, " Fine-tuning loss: ">>)
    /\ ft_epoch' = IF opt_steps > 2 * FineTuneEpochs * TopK
                     THEN FineTuneEpochs ELSE ft_epoch + 1
    /\ ft_idx' = 0
    /\ UNCHANGED <<nnVars, pc, ctlVars, calls, rmVars, loopVars, rankVars, genVars,
                   dataset, ft_steps, ft_backward, ft_visited, ft_result>>

\* end of the inner loop: print(f"Epoch {epoch+1} Fine-tuning loss: ...")
FineTuneEpochEnd ==
    /\ pc = "ft_loop"
    /\ ft_epoch < FineTuneEpochs
    /\ ft_idx = Len(dataset)
    /\ out' = Append(out, <<"Epoch ", ft_epoch + 1, " Fine-tuning loss: ">>)
    /\ ft_epoch' = ft_epoch + 1
    /\ ft_idx' = 0
    /\ UNCHANGED <<nnVars, pc, ctlVars, calls, rmVars, loopVars, rankVars, genVars,
                   dataset, ft_steps, ft_backward, ft_visited, ft_result>>

\* end of the outer loop: the function falls off its end and returns None
FineTuneReturn ==
    /\ pc = "ft_loop"
    /\ ft_epoch = FineTuneEpochs
    /\ ft_result' = "None"
    /\ calls' = Append(calls, <<"return", "fine_tune_model", iteration>>)
    /\ pc' = ret
    /\ UNCHANGED <<nnVars, ctlVars, out, rmVars, loopVars, rankVars, genVars, dataset,
                   ft_epoch, ft_idx, ft_steps, ft_backward, ft_visited>>

----------------------------------------------------------------------------
(* The RAFT loop *)

LoopContinues_UntilStable ==
    /\ iteration < NumIterations
    /\ iteration < 2 \/ ranked_samples[1] # samples[1]

\* range(5) has another value to give
LoopContinues == iteration < NumIterations

\* for iteration in range(5): print(f"Iteration {iteration+1}...");
\* prompt = "..."   (iteration counts the values drawn from range(5)); the
\* record of the fine_tune_model call that returned is dropped here
LoopHead ==
    /\ pc = "loop"
    /\ IF LoopContinues
         THEN /\ iteration' = iteration + 1
              /\ out' = Append(out, <<"Iteration ", iteration + 1, "...">>)
              /\ prompt' = Prompt
              /\ pc' = "generate"
         ELSE /\ pc' = "done"
              /\ UNCHANGED <<nnVars, iteration, out, prompt>>
    /\ dataset' = <<>>
    /\ ft_epoch' = 0
    /\ ft_idx' = 0
    /\ ft_steps' = 0
    /\ ft_backward' = 0
    /\ ft_visited' = <<>>
    /\ ft_result' = "unset"
    /\ UNCHANGED <<nnVars, ctlVars, calls, rmVars, num_samples, samples,
                   ranked_samples, rankVars, genVars>>

\* samples = generate_samples(prompt)
Generate ==
    /\ pc = "generate"
    /\ GenerateCall("rank")
    /\ UNCHANGED <<nnVars, ctlVars, out, rmVars, iteration, prompt, num_samples,
                   ranked_samples, rankVars, genVars, ftVars>>

TopSlice_Last(r) == SubSeq(r, Len(r) - Min(TopK, Len(r)) + 1, Len(r))

\* the [:3] of ranked_samples = rank_samples(samples)[:3]
TopSlice(r) == Take(r, TopK)

Rank_SetsEval ==
    /\ pc = "rank"
    /\ RankSamples("ft_call")
    /\ ranked_samples' = IF pc' = "failed" THEN ranked_samples
                                           ELSE TopSlice(ranking')
    /\ rm_mode' = "eval"
    /\ UNCHANGED <<nnVars, ret, out, rm_weights, rm_grad, rm_epoch, rm_ops,
                   iteration, prompt, num_samples, samples, genVars, ftVars>>

\* ranked_samples = rank_samples(samples)[:3]
Rank ==
    /\ pc = "rank"
    /\ RankSamples("ft_call")
    /\ ranked_samples' = IF pc' = "failed" THEN ranked_samples
                                           ELSE TopSlice(ranking')
    /\ UNCHANGED <<nnVars, ret, out, rmVars, iteration, prompt, num_samples, samples,
                   genVars, ftVars>>

\* fine_tune_model(generative_model, ranked_samples); the record of the
\* rank_samples call (its locals and its unsliced result) is dropped here
FineTune ==
    /\ pc = "ft_call"
    /\ FineTuneEnter(ranked_samples, "loop")
    /\ scored' = <<>>
    /\ scored_w' = Loaded
    /\ rewards' = NoTensor
    /\ order' = NoTensor
    /\ ranking' = <<>>
    /\ UNCHANGED <<nnVars, err, out, rmVars, loopVars, gen_weights, gen_grad,
                   opt_steps>>

Fail_RollsBack ==
    /\ pc \in {"generate", "rank", "ft_call", "ft_loop"}
    /\ pc' = "failed"
    /\ err' = "RuntimeError"
    /\ gen_weights' = [updates |-> SubSeq(gen_weights.updates, 1,
                                          opt_steps - ft_steps)]
    /\ opt_steps' = opt_steps - ft_steps
    /\ UNCHANGED <<nnVars, ret, ioVars, rmVars, loopVars, rankVars, gen_mode,
                   gen_grad, ftVars>>

\* a library call of the loop body raises (out of memory, a missing file, a
\* shape mismatch): nothing catches it and the cell stops
Fail ==
    /\ pc \in {"generate", "rank", "ft_call", "ft_loop"}
    /\ pc' = "failed"
    /\ err' = "RuntimeError"
    /\ UNCHANGED <<nnVars, ret, ioVars, rmVars, loopVars, rankVars, genVars, ftVars>>

----------------------------------------------------------------------------
(* Direct calls of the functions, with arguments drawn from bounded sets *)

Texts == {Format(i, p) : i \in 0..1, p \in Prompts}

RECURSIVE ListsUpTo(_, _)
ListsUpTo(S, n) ==
    IF n = 0 THEN {<<>>}
    ELSE LET shorter == ListsUpTo(S, n - 1)
         IN  shorter \cup {Append(l, x) : l \in shorter, x \in S}

NonEmptyLists(S, n) == ListsUpTo(S, n) \ {<<>>}

CallGenerate ==
    /\ pc = "call_generate"
    /\ GenerateCall("returned_generate")
    /\ UNCHANGED <<nnVars, ctlVars, out, rmVars, iteration, prompt, num_samples,
                   ranked_samples, rankVars, genVars, ftVars>>

CallRank ==
    /\ pc = "call_rank"
    /\ RankSamples("returned_rank")
    /\ UNCHANGED <<nnVars, ret, out, rmVars, loopVars, genVars, ftVars>>

\* a second call on the same list, nothing run in between
CallRankAgain ==
    /\ pc = "returned_rank"
    /\ RankSamples("returned_rank_again")
    /\ UNCHANGED <<nnVars, ret, out, rmVars, loopVars, genVars, ftVars>>

CallFineTune ==
    /\ pc = "call_fine_tune"
    /\ FineTuneEnter(ranked_samples, "returned_fine_tune")
    /\ UNCHANGED <<nnVars, err, out, rmVars, loopVars, rankVars, gen_weights,
                   gen_grad, opt_steps>>

----------------------------------------------------------------------------
(* The pytorch_nn notebook *)

NumEpochs == 100
PrintEvery == 10

\* a parameter tensor is one 32-bit pattern, in 0..MaxWord
MaxWord == 1
Words == 0..MaxWord

\* state_dict keys of SimpleNN, in registration order: fc1, then fc2, each
\* a Linear with a weight and a bias (relu has no parameters)
Keys == <<"fc1.weight", "fc1.bias", "fc2.weight", "fc2.bias">>

KeySet == Range(Keys)

\* no file, no model
NoFile == <<>>

\* the bytes of a float32 in storage: least significant first
Encode(v) == <<v % 256, (v \div 256) % 256, (v \div 65536) % 256,
               (v \div 16777216) % 256>>

Decode_BigEndian(b) == b[4] + 256 * b[3] + 65536 * b[2] + 16777216 * b[1]

Decode(b) == b[1] + 256 * b[2] + 65536 * b[3] + 16777216 * b[4]

\* torch.save(model.state_dict(), 'model.pth'): one record per key, in order
Serialize(sd) == [k \in 1..Len(Keys) |-> <<Keys[k], Encode(sd[Keys[k]])>>]

\* torch.load('model.pth'): the mapping from each stored key to its tensor
Deserialize(f) ==
    [key \in {f[k][1] : k \in 1..Len(f)} |->
        Decode(f[CHOOSE k \in 1..Len(f) : f[k][1] = key][2])]

\* load_state_dict (strict): accepted when the keys are the model's own
Loadable(w, sd) == DOMAIN sd = DOMAIN w

\* load_state_dict: every parameter is overwritten by the tensor of its key
LoadStateDict(w, sd) == [key \in DOMAIN w |-> sd[key]]

\* the parts of this notebook in a run of the other one
NNIdle ==
    /\ nn_pc = "idle"
    /\ nn_mode = "train"
    /\ nn_weights = [key \in KeySet |-> 0]
    /\ nn_grad = 0
    /\ nn_epoch = 0
    /\ nn_ops = <<>>
    /\ nn_out = <<>>
    /\ nn_file = NoFile
    /\ nn_saved = [key \in KeySet |-> 0]

\* for epoch in range(num_epochs)
NNFor ==
    /\ nn_pc = "for"
    /\ nn_pc' = IF nn_epoch < NumEpochs THEN "zero_grad" ELSE "evaluate"
    /\ nn_ops' = IF nn_epoch < NumEpochs THEN <<>> ELSE nn_ops
    /\ UNCHANGED <<raftVars, nn_mode, nn_weights, nn_grad, nn_epoch, nn_out,
                   nn_file, nn_saved>>

\* optimizer.zero_grad()
NNZeroGrad ==
    /\ nn_pc = "zero_grad"
    /\ nn_grad' = 0
    /\ nn_ops' = Append(nn_ops, "zero_grad")
    /\ nn_pc' = "forward"
    /\ UNCHANGED <<raftVars, nn_mode, nn_weights, nn_epoch, nn_out, nn_file,
                   nn_saved>>

\* outputs = model(x_train)
NNForward ==
    /\ nn_pc = "forward"
    /\ nn_ops' = Append(nn_ops, "forward")
    /\ nn_pc' = "loss"
    /\ UNCHANGED <<raftVars, nn_mode, nn_weights, nn_grad, nn_epoch, nn_out,
                   nn_file, nn_saved>>

\* loss = criterion(outputs, y_train)
NNLoss ==
    /\ nn_pc = "loss"
    /\ nn_ops' = Append(nn_ops, "loss")
    /\ nn_pc' = "backward"
    /\ UNCHANGED <<raftVars, nn_mode, nn_weights, nn_grad, nn_epoch, nn_out,
                   nn_file, nn_saved>>

\* loss.backward()
NNBackward ==
    /\ nn_pc = "backward"
    /\ nn_grad' = nn_grad + 1
    /\ nn_ops' = Append(nn_ops, "backward")
    /\ nn_pc' = "step"
    /\ UNCHANGED <<raftVars, nn_mode, nn_weights, nn_epoch, nn_out, nn_file,
                   nn_saved>>

\* optimizer.step(): the training data is random, so any parameters may
\* result
NNStep ==
    /\ nn_pc = "step"
    /\ nn_weights' \in [KeySet -> Words]
    /\ nn_ops' = Append(nn_ops, "step")
    /\ nn_pc' = "print"
    /\ UNCHANGED <<raftVars, nn_mode, nn_grad, nn_epoch, nn_out, nn_file,
                   nn_saved>>

NNPrint_ZeroBased ==
    /\ nn_pc = "print"
    /\ nn_out' = IF nn_epoch % PrintEvery = 0
                   THEN Append(nn_out, <<"Epoch [", nn_epoch + 1, "/",
                                         NumEpochs, "], Loss: ">>)
                   ELSE nn_out
    /\ nn_epoch' = nn_epoch + 1
    /\ nn_pc' = "for"
    /\ UNCHANGED <<raftVars, nn_mode, nn_weights, nn_grad, nn_ops, nn_file,
                   nn_saved>>

\* if (epoch + 1) % 10 == 0: print(f'Epoch [{epoch+1}/{num_epochs}], ...')
NNPrint ==
    /\ nn_pc = "print"
    /\ nn_out' = IF (nn_epoch + 1) % PrintEvery = 0
                   THEN Append(nn_out, <<"Epoch [", nn_epoch + 1, "/",
                                         NumEpochs, "], Loss: ">>)
                   ELSE nn_out
    /\ nn_epoch' = nn_epoch + 1
    /\ nn_pc' = "for"
    /\ UNCHANGED <<raftVars, nn_mode, nn_weights, nn_grad, nn_ops, nn_file,
                   nn_saved>>

\* the evaluation cell: a forward pass under torch.no_grad() and a print
NNEvaluate ==
    /\ nn_pc = "evaluate"
    /\ nn_out' = Append(nn_out, <<"Predicted Labels:">>)
    /\ nn_pc' = "save"
    /\ UNCHANGED <<raftVars, nn_mode, nn_weights, nn_grad, nn_epoch, nn_ops,
                   nn_file, nn_saved>>

\* torch.save(model.state_dict(), 'model.pth')
NNSave ==
    /\ nn_pc = "save"
    /\ nn_file' = Serialize(nn_weights)
    /\ nn_saved' = nn_weights
    /\ nn_pc' = "load"
    /\ UNCHANGED <<raftVars, nn_mode, nn_weights, nn_grad, nn_epoch, nn_ops,
                   nn_out>>

\* model.load_state_dict(torch.load('model.pth')); model.eval()
NNLoad ==
    /\ nn_pc = "load"
    /\ LET sd == Deserialize(nn_file)
       IN  IF Loadable(nn_weights, sd)
             THEN /\ nn_weights' = LoadStateDict(nn_weights, sd)
                  /\ nn_mode' = "eval"
                  /\ nn_pc' = "done"
             ELSE /\ nn_pc' = "failed"
                  /\ UNCHANGED <<nn_weights, nn_mode>>
    /\ UNCHANGED <<raftVars, nn_grad, nn_epoch, nn_ops, nn_out, nn_file,
                   nn_saved>>

----------------------------------------------------------------------------
(* Specifications *)

\* the RAFT notebook before its first cell runs its training loop: both
\* from_pretrained calls return models in evaluation mode
Init ==
    /\ pc = "rm_train"
    /\ err = "none"
    /\ ret = "none"
    /\ out = <<>>
    /\ calls = <<>>
    /\ rm_mode = "eval"
    /\ rm_weights = Loaded
    /\ rm_grad = 0
    /\ rm_epoch = 0
    /\ rm_ops = <<>>
    /\ iteration = 0
    /\ prompt = ""
    /\ num_samples = DefaultNumSamples
    /\ samples = <<>>
    /\ scored = <<>>
    /\ scored_w = Loaded
    /\ rewards = NoTensor
    /\ order = NoTensor
    /\ ranking = <<>>
    /\ ranked_samples = <<>>
    /\ gen_mode = "unloaded"
    /\ gen_weights = Loaded
    /\ gen_grad = 0
    /\ opt_steps = 0
    /\ dataset = <<>>
    /\ ft_epoch = 0
    /\ ft_idx = 0
    /\ ft_steps = 0
    /\ ft_backward = 0
    /\ ft_visited = <<>>
    /\ ft_result = "unset"
    /\ NNIdle

Next ==
    \/ RmTrainMode
    \/ RmFor
    \/ RmZeroGrad
    \/ RmForward
    \/ RmLoss
    \/ RmBackward
    \/ RmStep
    \/ LoadGenerative
    \/ LoopHead
    \/ Generate
    \/ Rank
    \/ FineTune
    \/ FineTuneStep
    \/ FineTuneEpochEnd
    \/ FineTuneReturn
    \/ Fail

Spec == Init /\ [][Next]_vars

\* reward_model after its training cell: in training mode, RewardEpochs
\* optimizer steps applied, each of one backward pass
Trained == [updates |-> [k \in 1..RewardEpochs |-> 1]]

\* the library calls of the last epoch of that cell
TrainedOps == <<"zero_grad", "forward", "loss", "backward", "step">>

\* one direct call of one of the three functions, the models as the notebook
\* leaves them after the reward-model cell and the load of the generative
\* model
InitCalls ==
    /\ err = "none"
    /\ ret = "none"
    /\ out = <<>>
    /\ calls = <<>>
    /\ rm_mode = "train"
    /\ rm_weights = Trained
    /\ rm_grad = 1
    /\ rm_epoch = RewardEpochs
    /\ rm_ops = TrainedOps
    /\ iteration = 0
    /\ scored = <<>>
    /\ scored_w = Loaded
    /\ rewards = NoTensor
    /\ order = NoTensor
    /\ ranking = <<>>
    /\ gen_mode = "eval"
    /\ gen_weights = Loaded
    /\ gen_grad = 0
    /\ opt_steps = 0
    /\ dataset = <<>>
    /\ ft_epoch = 0
    /\ ft_idx = 0
    /\ ft_steps = 0
    /\ ft_backward = 0
    /\ ft_visited = <<>>
    /\ ft_result = "unset"
    /\ NNIdle
    /\ \/ /\ pc = "call_generate"
          /\ prompt \in Prompts
          /\ num_samples \in 0..MaxLen
          /\ samples = <<>>
          /\ ranked_samples = <<>>
       \/ /\ pc = "call_rank"
          /\ prompt = Prompt
          /\ num_samples = DefaultNumSamples
          /\ samples \in NonEmptyLists(Texts, MaxRankLen)
          /\ ranked_samples = <<>>
       \/ /\ pc = "call_fine_tune"
          /\ prompt = Prompt
          /\ num_samples = DefaultNumSamples
          /\ samples = <<>>
          /\ ranked_samples \in NonEmptyLists(Texts, MaxLen)

NextCalls ==
    \/ CallGenerate
    \/ CallRank
    \/ CallRankAgain
    \/ CallFineTune
    \/ FineTuneStep
    \/ FineTuneEpochEnd
    \/ FineTuneReturn

SpecCalls == InitCalls /\ [][NextCalls]_vars

\* the RAFT notebook, and direct calls of its functions
InitAll == Init \/ InitCalls

NextAll == Next \/ NextCalls

SpecAll == InitAll /\ [][NextAll]_vars

\* the pytorch_nn notebook with the SimpleNN instance constructed (in
\* training mode, its parameters initialised at random) and the training
\* loop about to start
InitNN ==
    /\ pc = "idle"
    /\ err = "none"
    /\ ret = "none"
    /\ out = <<>>
    /\ calls = <<>>
    /\ rm_mode = "eval"
    /\ rm_weights = Loaded
    /\ rm_grad = 0
    /\ rm_epoch = 0
    /\ rm_ops = <<>>
    /\ iteration = 0
    /\ prompt = ""
    /\ num_samples = DefaultNumSamples
    /\ samples = <<>>
    /\ scored = <<>>
    /\ scored_w = Loaded
    /\ rewards = NoTensor
    /\ order = NoTensor
    /\ ranking = <<>>
    /\ ranked_samples = <<>>
    /\ gen_mode = "unloaded"
    /\ gen_weights = Loaded
    /\ gen_grad = 0
    /\ opt_steps = 0
    /\ dataset = <<>>
    /\ ft_epoch = 0
    /\ ft_idx = 0
    /\ ft_steps = 0
    /\ ft_backward = 0
    /\ ft_visited = <<>>
    /\ ft_result = "unset"
    /\ nn_pc = "for"
    /\ nn_mode = "train"
    /\ nn_weights \in [KeySet -> Words]
    /\ nn_grad = 0
    /\ nn_epoch = 0
    /\ nn_ops = <<>>
    /\ nn_out = <<>>
    /\ nn_file = NoFile
    /\ nn_saved = [key \in KeySet |-> 0]

NextNN ==
    \/ NNFor
    \/ NNZeroGrad
    \/ NNForward
    \/ NNLoss
    \/ NNBackward
    \/ NNStep
    \/ NNPrint
    \/ NNEvaluate
    \/ NNSave
    \/ NNLoad

SpecNN == InitNN /\ [][NextNN]_vars

\* either notebook, run from its start
InitLoops == Init \/ InitNN

NextLoops == Next \/ NextNN

SpecLoops == InitLoops /\ [][NextLoops]_vars

----------------------------------------------------------------------------
(* Claims *)

\* t holds the elements of s, each as often as s does
IsPermutationOf(t, s) ==
    /\ Len(t) = Len(s)
    /\ \A x \in Range(s) \cup Range(t) : Count(t, x) = Count(s, x)

RankCallEnded ==
    \/ pc \in {"returned_rank", "returned_rank_again"}
    \/ pc = "failed" /\ err = "TypeError"

RankReturned == pc \in {"ft_call", "returned_rank", "returned_rank_again"}

\* C1: every call of rank_samples on a list of one or more samples returns
\* a permutation of the list: same length, every sample as often as in the
\* input, nothing else
C1_RankReturnsPermutation ==
    RankCallEnded => pc # "failed" /\ IsPermutationOf(ranking, scored)

\* the score computed in the call for the sample at position k of the result
ScoreAt(k) == rewards.data[order.data[k]]

\* C2: the sequence rank_samples returns is ordered by the reward scores of
\* that call, descending: position k of the result is the input sample that
\* argsort put at k, and its score is at least that of position k + 1
C2_RankedDescending ==
    RankReturned =>
        /\ Len(ranking) = Len(scored)
        /\ \A k \in 1..Len(ranking) : ranking[k] = scored[order.data[k]]
        /\ \A k \in 1..(Len(ranking) - 1) : ScoreAt(k) >= ScoreAt(k + 1)

\* a returned ranking that had to reorder: the first two scores of the
\* input were ascending
C2_Witness ==
    /\ RankReturned
    /\ Len(ranking) >= 2
    /\ rewards.data[1] < rewards.data[2]
    /\ order.data[1] # 1

\* C3: scoring is a pure function of (text, weights): a second call of
\* rank_samples on the same list, the reward model's weights unchanged,
\* computes the same scores
C3_ScoringIsPure ==
    [][(pc = "returned_rank" /\ pc' = "returned_rank_again"
            /\ scored' = scored /\ scored_w' = scored_w)
        => rewards' = rewards]_vars

EventsOf(k) ==
    <<<<"call", "generate_samples", k>>, <<"return", "generate_samples", k>>,
      <<"call", "rank_samples", k>>, <<"return", "rank_samples", k>>,
      <<"call", "fine_tune_model", k>>, <<"return", "fine_tune_model", k>>>>

RECURSIVE EventsUpTo(_)
EventsUpTo(k) == IF k = 0 THEN <<>> ELSE EventsUpTo(k - 1) \o EventsOf(k)

IterationLines == SelectSeq(out, LAMBDA l : l[1] = "Iteration ")

\* C4: the loop runs exactly 5 iterations, each generate_samples, then
\* rank_samples, then fine_tune_model, every call returning before the next
\* one starts and iteration n + 1 starting after fine-tuning n returned: the
\* history of calls is always a prefix of that sequence and is all of it
\* when the loop ends
C4_FiveIterationsInOrder ==
    /\ IsPrefix(calls, EventsUpTo(5))
    /\ Len(IterationLines) = iteration
    /\ Len(calls) >= 6 * (iteration - 1)
    /\ pc = "done" => calls = EventsUpTo(5) /\ iteration = 5

C4_Witness == pc = "done" /\ Len(calls) = 30 /\ Len(out) = 3 + 5 * 4

\* C5: the dataset handed to fine_tune_model is the first min(3, n) elements
\* of the ranking, in ranked order, and every sample in it scored at least
\* as high as every sample left out (the last conjunct applies the slice to
\* lists shorter and longer than the loop's five)
C5_TopKSelected ==
    /\ pc = "ft_call" =>
        /\ Len(ranked_samples) = Min(3, Len(ranking))
        /\ \A k \in 1..Len(ranked_samples) : ranked_samples[k] = ranking[k]
        /\ \A k \in 1..Len(ranked_samples) :
            \A j \in (Len(ranked_samples) + 1)..Len(ranking) :
                ScoreAt(k) >= ScoreAt(j)
    /\ (pc = "ft_loop" /\ ret = "loop") => dataset = ranked_samples
    /\ \A n \in 0..(MaxLen + 2) :
        TopSlice([k \in 1..n |-> k]) = [k \in 1..Min(3, n) |-> k]

\* a selection that cut the ranking between two different scores, the
\* better samples not at the front of the input
C5_Witness ==
    /\ pc = "ft_call"
    /\ Len(ranking) = 5
    /\ Len(ranked_samples) = 3
    /\ ScoreAt(3) > ScoreAt(4)
    /\ order.data[1] > 3

\* C6: a failure in the loop ends the run: no step follows it (no later
\* step, no later iteration, no retry), and the step that fails leaves the
\* generative model as the optimizer steps so far made it
C6_FailureEndsRun ==
    [][/\ pc # "failed"
       /\ pc' = "failed" =>
            /\ gen_weights' = gen_weights
            /\ opt_steps' = opt_steps
            /\ Len(gen_weights.updates) = opt_steps
            /\ calls' = calls
            /\ iteration' = iteration]_vars

C6_Witness ==
    /\ pc = "failed"
    /\ iteration = 3
    /\ ft_epoch = 1
    /\ opt_steps = 22
    /\ Len(gen_weights.updates) = 22

C9_SamplesArePlaceholders ==
    (calls # <<>> /\ calls[Len(calls)] =
                        <<"return", "generate_samples", iteration>>) =>
        /\ Len(samples) = num_samples
        /\ \A i, j \in 1..Len(samples) : samples[i] = samples[j] => i = j
        /\ \A k \in 1..Len(samples) :
            samples[k] = <<"Generated response ", <<k - 1>>, " for ", prompt>>
        /\ iteration >= 1 =>
            samples = [k \in 1..5 |->
                <<"Generated response ", <<k - 1>>, " for ",
                  "What is artificial intelligence?">>]

C9_Witness ==
    /\ pc = "rank"
    /\ iteration = 5
    /\ opt_steps = 36
    /\ Len(samples) = 5

\* C11: in both full-batch training loops every epoch calls zero_grad,
\* forward, loss, backward, step in that order and nothing else; the
\* gradient buffers are empty when a backward pass starts and hold exactly
\* one pass when the optimizer steps, and each epoch makes one step
C11_EpochStepOrder ==
    LET epoch == <<"zero_grad", "forward", "loss", "backward", "step">>
    IN  /\ IsPrefix(rm_ops, epoch)
        /\ IsPrefix(nn_ops, epoch)
        /\ (pc = "rm_for" /\ rm_epoch > 0) => rm_ops = epoch
        /\ (nn_pc \in {"print", "for"} /\ nn_epoch + Len(nn_ops) > 0)
                => nn_ops = epoch
        /\ pc = "rm_backward" => rm_grad = 0 /\ Len(rm_ops) = 3
        /\ pc = "rm_step" => rm_grad = 1 /\ Len(rm_ops) = 4
        /\ nn_pc = "backward" => nn_grad = 0 /\ Len(nn_ops) = 3
        /\ nn_pc = "step" => nn_grad = 1 /\ Len(nn_ops) = 4
        /\ Len(rm_weights.updates) = rm_epoch
        /\ \A k \in 1..Len(rm_weights.updates) : rm_weights.updates[k] = 1
        /\ rm_epoch <= 3 /\ nn_epoch <= 100

\* the third epoch of the reward-model loop about to step: two steps made,
\* one backward pass in the buffers
C11_Witness ==
    /\ pc = "rm_step"
    /\ rm_epoch = 2
    /\ rm_grad = 1
    /\ rm_weights.updates = <<1, 1>>
    /\ rm_ops = <<"zero_grad", "forward", "loss", "backward">>

\* C12: fine_tune_model never clears the gradient buffers of the generative
\* model, within an epoch, across epochs or across RAFT iterations: the
\* buffers hold every backward pass made since the model was loaded, and
\* the k-th optimizer step since then applied the sum of k passes
C12_GradientsAccumulate ==
    /\ gen_grad = opt_steps
    /\ Len(gen_weights.updates) = gen_grad
    /\ \A k \in 1..Len(gen_weights.updates) : gen_weights.updates[k] = k
    /\ pc = "ft_loop" => gen_grad >= ft_backward

\* the first step of the second RAFT iteration: it applied the ten passes
\* made so far, nine of them by the previous call
C12_Witness ==
    /\ pc = "ft_loop"
    /\ iteration = 2
    /\ ft_steps = 1
    /\ ft_backward = 1
    /\ gen_grad = 10
    /\ gen_weights.updates[10] = 10

\* C13: once the reward-model training cell has run, nothing changes the
\* reward model: through every call of rank_samples and fine_tune_model and
\* every RAFT iteration it keeps the three updates of its training cell,
\* its gradient buffers and its training mode, while the generative model
\* alone takes the optimizer steps
C13_RewardModelUnchanged ==
    pc \notin {"rm_train", "rm_for", "rm_zero_grad", "rm_forward", "rm_loss",
               "rm_backward", "rm_step"} =>
        /\ rm_weights = [updates |-> <<1, 1, 1>>]
        /\ rm_mode = "train"
        /\ rm_grad = 1
        /\ rm_epoch = 3
        /\ Len(gen_weights.updates) = opt_steps

\* the loop has ended: five rankings and 45 optimizer steps on the
\* generative model later, the reward model is as its cell left it
C13_Witness ==
    /\ pc = "done"
    /\ iteration = 5
    /\ opt_steps = 45
    /\ gen_mode = "train"
    /\ rm_weights.updates = <<1, 1, 1>>
    /\ rm_mode = "train"

\* C14: the SimpleNN training loop runs exactly 100 epochs and prints one
\* progress line for each epoch whose 1-based number is a multiple of 10
\* and for no other: after n epochs the lines are those of 10, 20, ... up
\* to n, in that order, so ten lines when the loop has ended, the last one
\* for epoch 100
C14_ProgressLines ==
    LET line(n) == <<"Epoch [", n, "/", 100, "], Loss: ">>
        printed == SelectSeq(nn_out, LAMBDA l : l[1] = "Epoch [")
    IN  /\ nn_epoch <= 100
        /\ printed = [k \in 1..(nn_epoch \div 10) |-> line(10 * k)]
        /\ nn_pc \in {"evaluate", "save", "load", "done"} =>
                /\ nn_epoch = 100
                /\ Len(printed) = 10
                /\ printed[10] = line(100)

\* the loop has just ended
C14_Witness ==
    /\ nn_pc = "evaluate"
    /\ nn_epoch = 100
    /\ Len(nn_out) = 10
    /\ nn_out[1][2] = 10
    /\ nn_out[10][2] = 100

====
